---- MODULE Spec2Model ----
(***************************************************************************)
(* Model of the queue service (src/queue_service/queue_service.py): one    *)
(* beat thread that promotes INITIALIZING queues, fetches the PENDING      *)
(* ones, groups them, and for every group starts a thread running          *)
(* queue_beat_check; the attempt threads run concurrently with the beat    *)
(* thread and with each other.  The registry (rlocker), the heartbeat      *)
(* store, Rqueue and the service's main loop are collaborators whose code  *)
(* is not part of the sources at hand; they are modelled from the          *)
(* specification's sections 3, 4 and 6.                                    *)
(***************************************************************************)
EXTENDS Integers, Sequences, FiniteSets, TLC

VARIABLES
    \* ---- the registry (external) ----
    status,             \* entry id -> status
    qdata,              \* entry id -> [type, value]: the entry's resource selector
    final_resource,     \* entry id -> resource name recorded with FINISHED
    description,        \* entry id -> text recorded with FAILED / ABORTED
    lockedBy,           \* resource name -> signoff holding the lock, or Free
    \* ---- the heartbeat store (external) ----
    beatAge,            \* entry id -> seconds since the entry's last heartbeat
                        \* (counted up to the window), or NoBeat
    \* ---- the beat thread ----
    pc,                 \* position of the beat thread
    exc,                \* the exception travelling through __exit__
    beats,              \* beats begun so far
    initializing_queues,\* self.initializing_queues
    promoteIdx,         \* position of the loop of put_queues_on_pending
    pending_queues,     \* self.pending_queues
    all,                \* Rqueue.all
    grouped_queues,     \* Rqueue.grouped_queues
    groupIdx,           \* position of the loop over Rqueue.grouped_queues
    logLines,           \* the lines of the status log, each the beat it stamps
    reported,           \* the entry id printed with the fatal message, or 0
    exit_code,          \* the process's exit status, or Running
    \* ---- the attempt threads ----
    threads,            \* the live threads started by run()
    started,            \* threads started so far (the next thread's identity)
    \* ---- observations ----
    dispatched,         \* the (entry, resource) pairs started in the current beat
    skipped,            \* the entries the current beat selected and did not start
    terminalCalls,      \* entry id -> terminal status calls issued so far
    lockCalls,          \* entry id -> lock requests issued so far
    lockGrants,         \* entry id -> lock requests answered is_locked = true
    diverged            \* a promotion came back unconfirmed

vars == <<status, qdata, final_resource, description, lockedBy, beatAge,
          pc, exc, beats, initializing_queues, promoteIdx, pending_queues, all,
          grouped_queues, groupIdx, logLines, reported, exit_code, threads, started,
          dispatched,
          skipped, terminalCalls, lockCalls, lockGrants, diverged>>

registryVars == <<status, qdata, final_resource, description, lockedBy>>
heartVars    == <<beatAge>>
beatVars     == <<pc, exc, beats, initializing_queues, promoteIdx,
                  pending_queues, all, grouped_queues, groupIdx, logLines,
                  reported, exit_code>>
callVars     == <<terminalCalls, lockCalls, lockGrants>>
obsVars      == <<dispatched, skipped>>

-----------------------------------------------------------------------------
\* Bounds of the model.
NumEntries == 2
MaxBeats == 2
QUEUE_BEAT_TIMEOUT == 1
TruncSlack == 8

\* The limit of the description (queue_service.py, line 144).
DescriptionLimit == 2048

Entries == 1..NumEntries

STATUS_INITIALIZING == "INITIALIZING"
STATUS_PENDING == "PENDING"
STATUS_FINISHED == "FINISHED"
STATUS_FAILED == "FAILED"
STATUS_ABORTED == "ABORTED"
Absent == "ABSENT"
Terminal == {STATUS_FINISHED, STATUS_FAILED, STATUS_ABORTED}

None == "None"
Free == 0
NoBeat == -1
NoList == <<-1>>
Running == -1

\* The lockable resources of the registry, in the order it lists them.
Resources == << [name |-> "pool-A", labels |-> {"x"}],
                [name |-> "pool-B", labels |-> {"x"}] >>
ResourceNames == {Resources[i].name : i \in 1..Len(Resources)}

\* The resource selectors an entry may carry ("region" is no valid type).
Selectors == { [type |-> "name", value |-> "pool-A"],
               [type |-> "label", value |-> "x"],
               [type |-> "region", value |-> "eu"] }

Signoff(e) == e

Min(a, b) == IF a < b THEN a ELSE b

\* The least element of a non-empty set of numbers.
Min1(S) == CHOOSE x \in S : \A y \in S : x <= y
Range(s) == {s[i] : i \in 1..Len(s)}

-----------------------------------------------------------------------------
\* The registry, as the service sees it through rlocker.

RECURSIVE QueuesUpTo(_, _)
QueuesUpTo(n, st) ==
    IF n = 0 THEN <<>>
    ELSE LET rest == QueuesUpTo(n - 1, st)
         IN  IF status[n] = st THEN Append(rest, n) ELSE rest

\* rlocker.get_queues(status=st): the ids of the entries in status st, in id order.
get_queues(st) == QueuesUpTo(NumEntries, st)

IsFree(r) == lockedBy[r.name] = Free

\* rlocker.get_lockable_resources(free_only=True, name=n)
FreeByName(n) == SelectSeq(Resources, LAMBDA r : r.name = n /\ IsFree(r))

\* rlocker.get_lockable_resources(free_only=True, label_matches=l)
FreeByLabel(l) == SelectSeq(Resources, LAMBDA r : l \in r.labels /\ IsFree(r))

\* The denial details the registry may answer with.
DenialDetails == { <<"b", "u", "s", "y">> }

\* rlocker.lock_resource(resource, signoff, link): the registry's answer.
LockAnswers(r) ==
    IF IsFree(r)
    THEN { [is_locked |-> TRUE, detail |-> <<>>] }
    ELSE { [is_locked |-> FALSE, detail |-> d] : d \in DenialDetails }

\* The body of the answer (response.text): the serialised object.
ResponseText(resp) ==
    << "{", "is_locked", ":", IF resp.is_locked THEN "true" ELSE "false",
       ",", "detail", ":" >> \o resp.detail \o << "}" >>

\* queue_has_beat(queue_id, in_last_x_seconds): the entry has a heartbeat
\* newer than now - in_last_x_seconds, that is, of an age below the window.
queue_has_beat(queue_id, in_last_x_seconds) ==
    /\ beatAge[queue_id] # NoBeat
    /\ beatAge[queue_id] < in_last_x_seconds

-----------------------------------------------------------------------------
\* Rqueue: the in-memory entries and their grouping.

\* Rqueue(id, priority, data): the object appended to Rqueue.all.
Rqueue(id) == [id |-> id, group_type |-> qdata[id].type,
               group_name |-> qdata[id].value]

RqueueObjects(ids) == [i \in 1..Len(ids) |-> Rqueue(ids[i])]

\* Groups told apart by the selector's type alone.
SameGroup_TypeOnly(g, q) == g.group_type = q.group_type

SameGroup(g, q) == g.group_type = q.group_type /\ g.group_name = q.group_name

RECURSIVE GroupInto(_, _)
\* The groups after the entries qs were added, in order, to the groups gs.
GroupInto(gs, qs) ==
    IF qs = <<>> THEN gs
    ELSE LET q == Head(qs)
             hit == {i \in 1..Len(gs) : SameGroup(gs[i], q)}
         IN  IF hit = {}
             THEN GroupInto(Append(gs, [group_type |-> q.group_type,
                                        group_name |-> q.group_name,
                                        queues |-> <<q>>]), Tail(qs))
             ELSE LET i == CHOOSE j \in hit : TRUE
                  IN  GroupInto([gs EXCEPT ![i].queues = Append(@, q)], Tail(qs))

\* Rqueue.group_all()
group_all(entries) == GroupInto(<<>>, entries)

-----------------------------------------------------------------------------
\* The beat thread: QueueService.__init__, run, __exit__, driven by the
\* service's main loop (one QueueService per beat, run inside "with").

Init ==
    /\ status = [e \in Entries |-> Absent]
    /\ qdata \in [Entries -> Selectors]
    /\ final_resource = [e \in Entries |-> None]
    /\ description = [e \in Entries |-> <<>>]
    /\ lockedBy = [n \in ResourceNames |-> Free]
    /\ beatAge = [e \in Entries |-> NoBeat]
    /\ pc = "construct"
    /\ exc = None
    /\ beats = 0
    /\ initializing_queues = <<>>
    /\ promoteIdx = 1
    /\ pending_queues = NoList
    /\ all = <<>>
    /\ grouped_queues = <<>>
    /\ groupIdx = 1
    /\ logLines = <<>>
    /\ reported = 0
    /\ exit_code = Running
    /\ threads = {}
    /\ started = 0
    /\ dispatched = {}
    /\ skipped = {}
    /\ terminalCalls = [e \in Entries |-> 0]
    /\ lockCalls = [e \in Entries |-> 0]
    /\ lockGrants = [e \in Entries |-> 0]
    /\ diverged = FALSE

\* QueueService.__init__: the beat's object is built.
\* The FAILED entries fetched with the INITIALIZING ones, to be queued again.
fetch_initializing_WithFailed ==
    get_queues(STATUS_INITIALIZING) \o get_queues(STATUS_FAILED)

\* The INITIALIZING entries fetched at the first construction only.
fetch_initializing_Once ==
    IF beats = 0 THEN get_queues(STATUS_INITIALIZING) ELSE initializing_queues

\* __init__, line 18: rlocker.get_queues(status=const.STATUS_INITIALIZING)
fetch_initializing == get_queues(STATUS_INITIALIZING)

Construct ==
    /\ pc = "construct"
    /\ beats < MaxBeats
    /\ beats' = beats + 1
    /\ initializing_queues' = fetch_initializing
    /\ pending_queues' = NoList
    /\ promoteIdx' = 1
    /\ pc' = "promote"
    /\ dispatched' = {}
    /\ skipped' = {}
    /\ UNCHANGED <<registryVars, heartVars, exc, all, grouped_queues, groupIdx,
                   logLines, reported, exit_code, threads, started, callVars,
                   diverged>>

\* The registry's answers to change_queue(id, status="PENDING"): the status
\* it reports, which is the entry's status after the call.
PromoteAnswers(id) == {STATUS_PENDING, status[id]}

\* The answer not verified: the loop goes on whatever the registry reports.
is_queue_changed_Unverified(queue_response) == TRUE

\* is_queue_changed (put_queues_on_pending)
is_queue_changed(queue_response) == queue_response = STATUS_PENDING

\* put_queues_on_pending: one turn of its loop.
PromoteOne ==
    /\ pc = "promote"
    /\ promoteIdx <= Len(initializing_queues)
    /\ LET queue_id == initializing_queues[promoteIdx]
       IN  \E queue_response \in PromoteAnswers(queue_id) :
             /\ status' = [status EXCEPT ![queue_id] = queue_response]
             /\ diverged' = (diverged \/ queue_response # STATUS_PENDING)
             /\ IF is_queue_changed(queue_response)
                THEN /\ promoteIdx' = promoteIdx + 1
                     /\ UNCHANGED <<pc, exc, reported>>
                ELSE \* sys.exit()
                     /\ reported' = queue_id
                     /\ exc' = "SystemExit"
                     /\ pc' = "exit"
                     /\ UNCHANGED promoteIdx
    /\ UNCHANGED <<qdata, final_resource, description, lockedBy, heartVars,
                   beats, initializing_queues, pending_queues, all,
                   grouped_queues, groupIdx, logLines, exit_code, threads,
                   started, obsVars, callVars>>

\* instantiate_pending_queue_objects: Rqueue.all after the loop.
instantiate_pending_queue_objects(queues) == all \o RqueueObjects(queues)

\* run, lines 28 to 31: the PENDING set is fetched, instantiated and grouped.
FetchAndGroup ==
    /\ pc = "promote"
    /\ promoteIdx > Len(initializing_queues)
    /\ pending_queues' = get_queues(STATUS_PENDING)
    /\ all' = instantiate_pending_queue_objects(pending_queues')
    /\ grouped_queues' = group_all(all')
    /\ groupIdx' = 1
    /\ pc' = IF grouped_queues' = <<>> THEN "exit" ELSE "groups"
    /\ UNCHANGED <<registryVars, heartVars, exc, beats, initializing_queues,
                   promoteIdx, logLines, reported, exit_code, threads, started,
                   obsVars,
                   callVars, diverged>>

\* The names of the live threads (threading.enumerate()).
alive_threads_names == {t.name : t \in threads}

thread_name(queue) == queue.id

\* The check left out: a thread is started whatever threads are alive.
is_thread_already_fired_Never(queue) == FALSE

is_thread_already_fired(queue) == thread_name(queue) \in alive_threads_names

\* The resources of the group, as the registry lists them; Invalid for a
\* group type that is neither label nor name.
Invalid == << [name |-> "", labels |-> {}] >>

\* Only label groups accepted: a name group raises the error.
group_resources_LabelOnly(group) ==
    IF group.group_type = "label" THEN FreeByLabel(group.group_name)
    ELSE Invalid

\* An empty list of free resources taken for an invalid group.
group_resources_EmptyIsError(group) ==
    IF group.group_type = "label" /\ FreeByLabel(group.group_name) # <<>>
    THEN FreeByLabel(group.group_name)
    ELSE IF group.group_type = "name" /\ FreeByName(group.group_name) # <<>>
    THEN FreeByName(group.group_name)
    ELSE Invalid

group_resources(group) ==
    IF group.group_type = "label" THEN FreeByLabel(group.group_name)
    ELSE IF group.group_type = "name" THEN FreeByName(group.group_name)
    ELSE Invalid

\* threading.Thread(name=thread_name, target=self.queue_beat_check,
\* args=(next_queue, next_resource)), the n-th thread started from now.
Thread(next_queue, next_resource, n) ==
    [tid |-> started + n,
     name |-> thread_name(next_queue),
     next_queue |-> next_queue,
     next_resource |-> next_resource,
     pc |-> "beat_check",
     has_beat |-> None,
     attempt_lock |-> None]

\* With the first member's thread alive, the second member is taken.
fired_threads_NextMember(group, resources) ==
    IF ~ is_thread_already_fired(Head(group.queues))
    THEN { Thread(Head(group.queues), Head(resources), 1) }
    ELSE IF Len(group.queues) >= 2 /\ ~ is_thread_already_fired(group.queues[2])
    THEN { Thread(group.queues[2], Head(resources), 1) }
    ELSE {}

\* The last member and the last resource taken in place of the first ones.
fired_threads_Last(group, resources) ==
    IF ~ is_thread_already_fired(Head(group.queues))
    THEN { Thread(group.queues[Len(group.queues)],
                  resources[Len(resources)], 1) }
    ELSE {}

\* A thread for every member of the group that a free resource is left for.
fired_threads_EveryPair(group, resources) ==
    { Thread(group.queues[i], resources[i], i) :
        i \in 1..Min(Len(group.queues), Len(resources)) }

\* run, lines 46 to 61: the threads one turn of the loop starts for a group
\* with free resources: one for the first member and the first resource,
\* none when that member's thread is alive.
fired_threads(group, resources) ==
    IF ~ is_thread_already_fired(Head(group.queues))
    THEN { Thread(Head(group.queues), Head(resources), 1) }
    ELSE {}

\* Where the loop over the groups goes after the group at groupIdx.
AfterGroup == IF groupIdx + 1 > Len(grouped_queues) THEN "exit" ELSE "groups"

\* run, lines 32 to 61: one turn of the loop over the groups.
RunGroup ==
    /\ pc = "groups"
    /\ groupIdx <= Len(grouped_queues)
    /\ LET group == grouped_queues[groupIdx]
           resources == group_resources(group)
       IN  IF resources = Invalid
           THEN \* raise Exception("Group type should be either name or label!")
                /\ exc' = "Exception"
                /\ pc' = "exit"
                /\ UNCHANGED <<grouped_queues, groupIdx, threads, started,
                               dispatched, skipped>>
           ELSE /\ groupIdx' = groupIdx + 1
                /\ pc' = AfterGroup
                /\ exc' = exc
                /\ IF resources # <<>>
                   THEN LET next_queue == Head(group.queues)
                            fired == fired_threads(group, resources)
                        IN  /\ grouped_queues' =
                                 [grouped_queues EXCEPT ![groupIdx].queues = Tail(@)]
                            /\ threads' = threads \cup fired
                            /\ started' = started + Cardinality(fired)
                            /\ dispatched' = dispatched \cup
                                 { <<t.next_queue.id, t.next_resource.name>> :
                                     t \in fired }
                            /\ skipped' = IF fired = {}
                                          THEN skipped \cup {next_queue.id}
                                          ELSE skipped
                   ELSE UNCHANGED <<grouped_queues, threads, started, obsVars>>
    /\ UNCHANGED <<registryVars, heartVars, beats, initializing_queues,
                   promoteIdx, pending_queues, all, logLines, reported,
                   exit_code, callVars,
                   diverged>>

\* The service's main loop after __exit__ has returned: the next beat, or, with
\* an exception travelling (SystemExit, Exception), the end of the process.
AfterExit == IF exc = None THEN "construct" ELSE "terminated"

\* sys.exit() of line 85 has no argument: SystemExit(None), exit status 0.
sys_exit_status == 0

\* An exception nobody catches ends the interpreter with status 1.
uncaught_status == 1

\* The exit status of a process whose main thread ended with the exception.
exit_status(exception) ==
    IF exception = "SystemExit" THEN sys_exit_status ELSE uncaught_status

\* __exit__, first step: time.sleep(INTERVAL).  It runs whatever ended the
\* beat, an exception (SystemExit, Exception) included.
Sleep ==
    /\ pc = "exit"
    /\ pc' = "exit_clear"
    /\ UNCHANGED <<registryVars, heartVars, exc, beats, initializing_queues,
                   promoteIdx, pending_queues, all, grouped_queues, groupIdx,
                   logLines, reported, exit_code, threads, started, obsVars,
                   callVars, diverged>>

\* The groups cleared and the entry list left as it is.
ClearRqueue_KeepsAll ==
    /\ pc = "exit_clear"
    /\ grouped_queues' = <<>>
    /\ pc' = "exit_log"
    /\ UNCHANGED <<registryVars, heartVars, exc, beats, initializing_queues,
                   promoteIdx, pending_queues, all, groupIdx, logLines,
                   reported, exit_code, threads, started, obsVars, callVars,
                   diverged>>

\* __exit__, second step: Rqueue.all.clear(), Rqueue.grouped_queues.clear().
ClearRqueue ==
    /\ pc = "exit_clear"
    /\ all' = <<>>
    /\ grouped_queues' = <<>>
    /\ pc' = "exit_log"
    /\ UNCHANGED <<registryVars, heartVars, exc, beats, initializing_queues,
                   promoteIdx, pending_queues, groupIdx, logLines, reported,
                   exit_code, threads, started, obsVars, callVars, diverged>>

\* The line of the beat: "\nTIMESTAMP:{get_time().timestamp()},", told from
\* the lines of the other beats by the beat's number.
timestamp_line == beats

\* The file opened with mode "w": the line replaces what was written.
write_status_log_Truncating(f, line) == <<line>>

\* with open(const.STATUS_LOGS_FILE, "a") as f: f.write(line)
write_status_log(f, line) == Append(f, line)

\* __exit__, last step: the TIMESTAMP line appended to the status log.  It
\* returns None, so an exception that travels through it ends the process.
WriteStatusLog ==
    /\ pc = "exit_log"
    /\ logLines' = write_status_log(logLines, timestamp_line)
    /\ pc' = AfterExit
    /\ exit_code' = IF AfterExit = "terminated" THEN exit_status(exc)
                                                ELSE exit_code
    /\ UNCHANGED <<registryVars, heartVars, exc, beats, initializing_queues,
                   promoteIdx, pending_queues, all, grouped_queues, groupIdx,
                   reported, threads, started, obsVars, callVars, diverged>>

-----------------------------------------------------------------------------
\* The attempt threads: queue_beat_check(next_queue, next_resource).

Replace(t, u) == (threads \ {t}) \cup {u}

\* An attempt without heartbeat waits for one in place of aborting.
beat_branch_Wait(has_beat) == IF has_beat THEN "lock" ELSE "wait"

\* queue_beat_check, line 122: the heartbeat check and the branch it takes.
\* The heartbeat check's result not looked at: the lock is always requested.
beat_branch_AlwaysLock(has_beat) == "lock"

beat_branch(has_beat) == IF has_beat THEN "lock" ELSE "abort"

BeatCheck(t) ==
    /\ t.pc = "beat_check"
    /\ LET has_beat == queue_has_beat(t.next_queue.id, QUEUE_BEAT_TIMEOUT)
       IN  threads' = Replace(t, [t EXCEPT !.pc = beat_branch(has_beat),
                                           !.has_beat = has_beat])
    /\ UNCHANGED <<registryVars, heartVars, beatVars, started, obsVars,
                   callVars, diverged>>

\* queue_beat_check, lines 126 to 131: the lock request and its answer.
LockResource(t) ==
    /\ t.pc = "lock"
    /\ \E answer \in LockAnswers(t.next_resource) :
         /\ threads' = Replace(t, [t EXCEPT !.pc = "change_queue",
                                            !.attempt_lock = answer])
         /\ lockedBy' = IF answer.is_locked
                        THEN [lockedBy EXCEPT ![t.next_resource.name] =
                                                 Signoff(t.next_queue.id)]
                        ELSE lockedBy
         /\ lockGrants' = IF answer.is_locked
                          THEN [lockGrants EXCEPT ![t.next_queue.id] = @ + 1]
                          ELSE lockGrants
    /\ lockCalls' = [lockCalls EXCEPT ![t.next_queue.id] = @ + 1]
    /\ UNCHANGED <<status, qdata, final_resource, description, heartVars,
                   beatVars, started, obsVars, terminalCalls, diverged>>

\* The slice one character short.
Truncate_OneShort(text) == SubSeq(text, 1, Min(Len(text), DescriptionLimit - 1))

\* attempt_lock.text[:2048]
Truncate(text) == SubSeq(text, 1, Min(Len(text), DescriptionLimit))

\* The answer not looked at: every attempt that asked for the lock finishes.
lock_outcome_AlwaysFinished(attempt_lock) == STATUS_FINISHED

\* queue_beat_check, line 134: the status the answer leads to.
lock_outcome(attempt_lock) ==
    IF attempt_lock.is_locked THEN STATUS_FINISHED ELSE STATUS_FAILED

\* The detail field of the answer stored in place of its body.
failed_description_Detail(attempt_lock) == Truncate(attempt_lock.detail)

\* queue_beat_check, line 144: the description sent with FAILED.
failed_description(attempt_lock) == Truncate(ResponseText(attempt_lock))

\* The group's name recorded in place of the resource's.
claimed_resource_GroupName(t) == t.next_queue.group_name

\* queue_beat_check, line 138: final_resource=next_resource.get('name')
claimed_resource(t) == t.next_resource.name

\* queue_beat_check, lines 134 to 145: the status change after the lock
\* request; the thread ends.
ChangeQueue(t) ==
    /\ t.pc = "change_queue"
    /\ LET id == t.next_queue.id
           to == lock_outcome(t.attempt_lock)
       IN  /\ status' = [status EXCEPT ![id] = to]
           /\ IF to = STATUS_FINISHED
              THEN /\ final_resource' =
                        [final_resource EXCEPT ![id] = claimed_resource(t)]
                   /\ UNCHANGED description
              ELSE /\ description' =
                        [description EXCEPT ![id] = failed_description(t.attempt_lock)]
                   /\ UNCHANGED final_resource
           /\ terminalCalls' = [terminalCalls EXCEPT ![id] = @ + 1]
    /\ threads' = threads \ {t}
    /\ UNCHANGED <<qdata, lockedBy, heartVars, beatVars, started, obsVars,
                   lockCalls, lockGrants, diverged>>

\* The abort message of queue_beat_check, lines 149 to 151, word by word.
abort_msg ==
    << "This", "queue", "was", "an", "orphan", "queue!", "There", "was", "no",
       "associated", "client,", "because", "queue", "was", "not", "beating",
       "in", "the", "last", "QUEUE_BEAT_TIMEOUT", "seconds" >>

\* queue_beat_check, lines 147 to 152: the abort of an orphan; the thread ends.
AbortQueue(t) ==
    /\ t.pc = "abort"
    /\ status' = [status EXCEPT ![t.next_queue.id] = STATUS_ABORTED]
    /\ description' = [description EXCEPT ![t.next_queue.id] = abort_msg]
    /\ terminalCalls' = [terminalCalls EXCEPT ![t.next_queue.id] = @ + 1]
    /\ threads' = threads \ {t}
    /\ UNCHANGED <<qdata, final_resource, lockedBy, heartVars, beatVars,
                   started, obsVars, lockCalls, lockGrants, diverged>>

-----------------------------------------------------------------------------
\* The environment: clients of the registry and of the heartbeat store.

\* A client puts a new entry in the queue.
CreateEntry(e) ==
    /\ status[e] = Absent
    /\ status' = [status EXCEPT ![e] = STATUS_INITIALIZING]
    /\ UNCHANGED <<qdata, final_resource, description, lockedBy, heartVars,
                   beatVars, threads, started, obsVars, callVars, diverged>>

\* The client waiting for entry e sends a heartbeat.
ClientBeat(e) ==
    /\ status[e] \in {STATUS_INITIALIZING, STATUS_PENDING}
    /\ beatAge[e] # 0
    /\ beatAge' = [beatAge EXCEPT ![e] = 0]
    /\ UNCHANGED <<registryVars, beatVars, threads, started, obsVars,
                   callVars, diverged>>

\* A second passes: every heartbeat grows older (an age at the window
\* stands for every age from the window on).
Older(age) ==
    IF age = NoBeat THEN NoBeat ELSE Min(age + 1, QUEUE_BEAT_TIMEOUT)

Tick ==
    /\ beatAge' = [e \in Entries |-> Older(beatAge[e])]
    /\ beatAge' # beatAge
    /\ UNCHANGED <<registryVars, beatVars, threads, started,
                   obsVars, callVars, diverged>>

-----------------------------------------------------------------------------
Next ==
    \/ Construct
    \/ PromoteOne
    \/ FetchAndGroup
    \/ RunGroup
    \/ Sleep
    \/ ClearRqueue
    \/ WriteStatusLog
    \/ \E t \in threads : BeatCheck(t)
    \/ \E t \in threads : LockResource(t)
    \/ \E t \in threads : ChangeQueue(t)
    \/ \E t \in threads : AbortQueue(t)
    \/ \E e \in Entries : CreateEntry(e)
    \/ \E e \in Entries : ClientBeat(e)
    \/ Tick

Spec == Init /\ [][Next]_vars

-----------------------------------------------------------------------------
\* The cut of the description, on answers of every length around the limit.

\* A detail of n characters: all c, or c and d in turn.
Fill(n, c, d) == [i \in 1..n |-> IF i % 2 = 1 THEN c ELSE d]

\* The lengths of the details: short ones, and those whose answer's body
\* (the detail and the 8 characters around it) is about as long as the limit.
TruncLengths ==
    (0..TruncSlack) \cup
    ((DescriptionLimit - 8 - TruncSlack)..(DescriptionLimit - 8 + TruncSlack))

TruncDetails ==
    { Fill(n, c[1], c[2]) :
        n \in TruncLengths, c \in { <<"a", "a">>, <<"b", "b">>, <<"a", "b">> } }

\* Entry 2 was matched with pool-A in the first beat, entry 1 in the second
\* while pool-A was still free; entry 2's attempt then locked pool-A and
\* finished, and entry 1's attempt has just been denied the lock, with any
\* of the details.
InitTrunc ==
    /\ status = [e \in Entries |-> IF e = 1 THEN STATUS_PENDING
                                   ELSE IF e = 2 THEN STATUS_FINISHED ELSE Absent]
    /\ qdata = [e \in Entries |-> [type |-> "name", value |-> "pool-A"]]
    /\ final_resource = [e \in Entries |-> IF e = 2 THEN "pool-A" ELSE None]
    /\ description = [e \in Entries |-> <<>>]
    /\ lockedBy = [n \in ResourceNames |-> IF n = "pool-A" THEN Signoff(2) ELSE Free]
    /\ beatAge = [e \in Entries |-> IF e \in {1, 2} THEN 0 ELSE NoBeat]
    /\ pc = "construct"
    /\ exc = None
    /\ beats = 2
    /\ initializing_queues = <<1>>
    /\ promoteIdx = 2
    /\ pending_queues = <<1, 2>>
    /\ all = <<>>
    /\ grouped_queues = <<>>
    /\ groupIdx = 2
    /\ logLines = <<1, 2>>
    /\ reported = 0
    /\ exit_code = Running
    /\ \E d \in TruncDetails :
         threads = { [tid |-> 2, name |-> 1, next_queue |-> Rqueue(1),
                      next_resource |-> Resources[1], pc |-> "change_queue",
                      has_beat |-> TRUE,
                      attempt_lock |-> [is_locked |-> FALSE, detail |-> d]] }
    /\ started = 2
    /\ dispatched = {<<1, "pool-A">>}
    /\ skipped = {}
    /\ terminalCalls = [e \in Entries |-> IF e = 2 THEN 1 ELSE 0]
    /\ lockCalls = [e \in Entries |-> IF e \in {1, 2} THEN 1 ELSE 0]
    /\ lockGrants = [e \in Entries |-> IF e = 2 THEN 1 ELSE 0]
    /\ diverged = FALSE

NextTrunc == \E t \in threads : ChangeQueue(t)

SpecTrunc == InitTrunc /\ [][NextTrunc]_vars

-----------------------------------------------------------------------------
\* The grouping alone: Rqueue.group_all() (run, line 30) applied to every
\* list of up to MaxGroupInput in-memory entries, whatever their selectors.

MaxGroupInput == 4

GroupSelectors ==
    Selectors \cup { [type |-> "name", value |-> "pool-B"],
                     [type |-> "label", value |-> "pool-A"] }

\* The in-memory entries after instantiate_pending_queue_objects: ids in
\* the order of the fetched list, every entry with any selector.
GroupInputs ==
    UNION { { [i \in 1..n |-> [id |-> i, group_type |-> sel[i].type,
                                group_name |-> sel[i].value]] :
                sel \in [1..n -> GroupSelectors] } : n \in 0..MaxGroupInput }

InitGroup ==
    /\ status = [e \in Entries |-> STATUS_PENDING]
    /\ qdata = [e \in Entries |-> [type |-> "label", value |-> "x"]]
    /\ final_resource = [e \in Entries |-> None]
    /\ description = [e \in Entries |-> <<>>]
    /\ lockedBy = [n \in ResourceNames |-> Free]
    /\ beatAge = [e \in Entries |-> 0]
    /\ pc = "group_all"
    /\ exc = None
    /\ beats = 1
    /\ initializing_queues = <<>>
    /\ promoteIdx = 1
    /\ pending_queues = <<>>
    /\ all \in GroupInputs
    /\ grouped_queues = <<>>
    /\ groupIdx = 1
    /\ logLines = <<>>
    /\ reported = 0
    /\ exit_code = Running
    /\ threads = {}
    /\ started = 0
    /\ dispatched = {}
    /\ skipped = {}
    /\ terminalCalls = [e \in Entries |-> 0]
    /\ lockCalls = [e \in Entries |-> 0]
    /\ lockGrants = [e \in Entries |-> 0]
    /\ diverged = FALSE

\* run, line 30: Rqueue.group_all() over Rqueue.all.
GroupAll ==
    /\ pc = "group_all"
    /\ grouped_queues' = group_all(all)
    /\ pc' = "grouped"
    /\ UNCHANGED <<registryVars, heartVars, exc, beats, initializing_queues,
                   promoteIdx, pending_queues, all, groupIdx, logLines,
                   reported, exit_code, threads, started, obsVars, callVars,
                   diverged>>

NextGroup == GroupAll

SpecGroup == InitGroup /\ [][NextGroup]_vars

-----------------------------------------------------------------------------
\* The service started on a registry where pool-A is held by another client:
\* a group that names pool-A finds no free resource.

Foreign == NumEntries + 1

InitBusy ==
    /\ status = [e \in Entries |-> Absent]
    /\ qdata \in [Entries -> Selectors]
    /\ final_resource = [e \in Entries |-> None]
    /\ description = [e \in Entries |-> <<>>]
    /\ lockedBy = [n \in ResourceNames |->
                     IF n = "pool-A" THEN Foreign ELSE Free]
    /\ beatAge = [e \in Entries |-> NoBeat]
    /\ pc = "construct"
    /\ exc = None
    /\ beats = 0
    /\ initializing_queues = <<>>
    /\ promoteIdx = 1
    /\ pending_queues = NoList
    /\ all = <<>>
    /\ grouped_queues = <<>>
    /\ groupIdx = 1
    /\ logLines = <<>>
    /\ reported = 0
    /\ exit_code = Running
    /\ threads = {}
    /\ started = 0
    /\ dispatched = {}
    /\ skipped = {}
    /\ terminalCalls = [e \in Entries |-> 0]
    /\ lockCalls = [e \in Entries |-> 0]
    /\ lockGrants = [e \in Entries |-> 0]
    /\ diverged = FALSE

SpecBusy == InitBusy /\ [][Next]_vars

-----------------------------------------------------------------------------
\* Fair scheduling: every thread that can take a step eventually takes one.
\* The registry and the heartbeat store answer every call, so a live attempt
\* thread can always take its next step; the beat thread's steps are always
\* possible until the process terminates (or the bound on beats is reached).

\* The ids the threads of a run can get: a beat starts at most one thread
\* per group, and has at most one group per entry.
Tids == 1..(MaxBeats * NumEntries)

\* A step of the attempt thread with id n.
ThreadStep(n) ==
    \E t \in threads :
        /\ t.tid = n
        /\ BeatCheck(t) \/ LockResource(t) \/ ChangeQueue(t) \/ AbortQueue(t)

\* A step of the beat thread.
BeatThreadStep ==
    \/ Construct
    \/ PromoteOne
    \/ FetchAndGroup
    \/ RunGroup
    \/ Sleep
    \/ ClearRqueue
    \/ WriteStatusLog

Fairness ==
    /\ WF_vars(BeatThreadStep)
    /\ \A n \in Tids : WF_vars(ThreadStep(n))

FairSpec == Spec /\ Fairness

-----------------------------------------------------------------------------
\* The service running without end: the beats after the MaxBeats-th are
\* counted as the MaxBeats-th, and the lines they add to the status log are
\* not kept apart (a log of MaxBeats lines stands for every longer one).

\* The construction of a beat after the MaxBeats-th.
ConstructAgain ==
    /\ pc = "construct"
    /\ beats = MaxBeats
    /\ initializing_queues' = fetch_initializing
    /\ pending_queues' = NoList
    /\ promoteIdx' = 1
    /\ pc' = "promote"
    /\ dispatched' = {}
    /\ skipped' = {}
    /\ UNCHANGED <<registryVars, heartVars, exc, beats, all, grouped_queues,
                   groupIdx, logLines, reported, exit_code, threads, started,
                   callVars, diverged>>

\* The line of one of the first MaxBeats beats.
WriteStatusLogInBound == Len(logLines) < MaxBeats /\ WriteStatusLog

\* The line of a beat after the MaxBeats-th.
WriteStatusLogAgain ==
    /\ pc = "exit_log"
    /\ Len(logLines) = MaxBeats
    /\ pc' = AfterExit
    /\ exit_code' = IF AfterExit = "terminated" THEN exit_status(exc)
                                                ELSE exit_code
    /\ UNCHANGED <<registryVars, heartVars, exc, beats, initializing_queues,
                   promoteIdx, pending_queues, all, grouped_queues, groupIdx,
                   logLines, reported, threads, started, obsVars, callVars,
                   diverged>>

\* A step of the beat thread of the service running without end.
BeatThreadStepLoop ==
    \/ Construct
    \/ ConstructAgain
    \/ PromoteOne
    \/ FetchAndGroup
    \/ RunGroup
    \/ Sleep
    \/ ClearRqueue
    \/ WriteStatusLogInBound
    \/ WriteStatusLogAgain

NextLoop ==
    \/ Construct
    \/ ConstructAgain
    \/ PromoteOne
    \/ FetchAndGroup
    \/ RunGroup
    \/ Sleep
    \/ ClearRqueue
    \/ WriteStatusLogInBound
    \/ WriteStatusLogAgain
    \/ \E t \in threads : BeatCheck(t)
    \/ \E t \in threads : LockResource(t)
    \/ \E t \in threads : ChangeQueue(t)
    \/ \E t \in threads : AbortQueue(t)
    \/ \E e \in Entries : CreateEntry(e)
    \/ \E e \in Entries : ClientBeat(e)
    \/ Tick

FairnessLoop ==
    /\ WF_vars(BeatThreadStepLoop)
    /\ \A n \in Tids : WF_vars(ThreadStep(n))

FairSpecLoop == Init /\ [][NextLoop]_vars /\ FairnessLoop

-----------------------------------------------------------------------------
\* The claims.

\* The group the loop of run() is at, when it is at one.
AtGroup == pc = "groups" /\ groupIdx <= Len(grouped_queues)

\* The loop is at a group with free resources whose first member has a
\* live thread: the beat selects an entry whose attempt is still running.
SelectsLive ==
    /\ AtGroup
    /\ LET group == grouped_queues[groupIdx]
       IN  /\ group.group_type \in {"name", "label"}
           /\ \E i \in 1..Len(Resources) :
                /\ lockedBy[Resources[i].name] = Free
                /\ IF group.group_type = "name"
                   THEN Resources[i].name = group.group_name
                   ELSE group.group_name \in Resources[i].labels
           /\ \E t \in threads : t.name = Head(group.queues).id

\* C1: at any time at most one live thread runs queue_beat_check for a
\* given entry id.
C1_OneAttemptPerEntry ==
    \A t1 \in threads : \A t2 \in threads :
        t1.next_queue.id = t2.next_queue.id => t1 = t2

\* C1, its case: a beat has selected an entry whose thread is alive, and
\* that entry still has its one thread.
C1_Witness ==
    \E t \in threads : t.next_queue.id \in skipped /\ beats = 2

\* C2: a terminal status is set on an entry at most once, and no attempt is
\* started for an entry that is already in a terminal state (a thread that
\* has not yet made its heartbeat check belongs to an entry that is not
\* terminal).
C2_TerminalSetOnce ==
    /\ \A e \in Entries : terminalCalls[e] <= 1
    /\ \A t \in threads :
         t.pc = "beat_check" => status[t.next_queue.id] \notin Terminal

\* C3: a beat's selection of an entry whose earlier attempt is still running
\* starts no thread and issues no heartbeat check, lock request or status
\* change: the step leaves the threads, the registry and the calls as they are.
C3_SecondSelectionIsNoOp ==
    [][ (SelectsLive /\ groupIdx' = groupIdx + 1)
          => /\ threads' = threads
             /\ started' = started
             /\ dispatched' = dispatched
             /\ UNCHANGED <<registryVars, heartVars, callVars>> ]_vars

\* C3, its case: an entry was selected again while its attempt ran, and its
\* attempt has reached its one terminal status change.
C3_Witness ==
    \E e \in skipped :
        /\ terminalCalls[e] = 1
        /\ status[e] \in Terminal
        /\ \A t \in threads : t.next_queue.id # e

\* C4: within one beat the resources of the pairs handed to the attempt
\* threads are pairwise distinct.
C4_DistinctResourcesPerBeat ==
    \A p \in dispatched : \A q \in dispatched : p[2] = q[2] => p = q

\* The threads that end in the step.
Ended == threads \ threads'

\* Entry e has no heartbeat inside the window: no record at all, or a last
\* heartbeat at least QUEUE_BEAT_TIMEOUT seconds old.
NoHeartbeat(e) == beatAge[e] = NoBeat \/ beatAge[e] >= QUEUE_BEAT_TIMEOUT

\* C5: two entries are never FINISHED with the same resource; an attempt
\* whose lock request was denied makes its entry FAILED, and raises no error.
C5_NoDoubleClaim ==
    /\ [](\A e1 \in Entries : \A e2 \in Entries :
            ( /\ e1 # e2
              /\ status[e1] = STATUS_FINISHED
              /\ status[e2] = STATUS_FINISHED )
            => final_resource[e1] # final_resource[e2])
    /\ [][ \A t \in Ended :
             (t.pc = "change_queue" /\ ~ t.attempt_lock.is_locked)
               => /\ status'[t.next_queue.id] = STATUS_FAILED
                  /\ lockedBy' = lockedBy
                  /\ exc' = exc ]_vars

\* C5, its case: one entry holds a resource and is FINISHED with it, and
\* another entry, whose lock request was denied, is FAILED.
C5_Witness ==
    \E e1 \in Entries : \E e2 \in Entries :
        /\ e1 # e2
        /\ status[e1] = STATUS_FINISHED
        /\ lockedBy[final_resource[e1]] = Signoff(e1)
        /\ status[e2] = STATUS_FAILED
        /\ lockCalls[e2] = 1 /\ lockGrants[e2] = 0

\* C6: an attempt whose entry has no heartbeat inside the window goes from
\* its heartbeat check to the abort, never to the lock request; the abort
\* sets ABORTED with a reason that contains "orphan", issues no lock request
\* and leaves every resource as it is.
C6_OrphanAborted ==
    [][ \A t \in Ended :
          /\ (t.pc = "beat_check" /\ NoHeartbeat(t.next_queue.id))
               => /\ \E u \in threads' : u.tid = t.tid /\ u.pc = "abort"
                  /\ UNCHANGED <<registryVars, callVars>>
          /\ t.pc = "abort"
               => /\ \A u \in threads' : u.tid # t.tid
                  /\ status'[t.next_queue.id] = STATUS_ABORTED
                  /\ "orphan" \in Range(description'[t.next_queue.id])
                  /\ lockCalls' = lockCalls
                  /\ lockedBy' = lockedBy ]_vars

\* C6, its case: an entry without any heartbeat record was aborted as an
\* orphan, no lock was ever requested for it, and every resource is free.
C6_Witness ==
    \E e \in Entries :
        /\ status[e] = STATUS_ABORTED
        /\ beatAge[e] = NoBeat
        /\ "orphan" \in Range(description[e])
        /\ lockCalls[e] = 0
        /\ \A n \in ResourceNames : lockedBy[n] = Free

\* C7: a status change to FINISHED is made only by an attempt whose
\* heartbeat check passed and whose lock request was granted, and the
\* final_resource it records is the name of the resource it locked; so a
\* FINISHED entry's final_resource names a resource locked under its signoff.
C7_FinishedOnlyAfterLock ==
    /\ [](\A e \in Entries :
            status[e] = STATUS_FINISHED
              => /\ final_resource[e] \in ResourceNames
                 /\ lockedBy[final_resource[e]] = Signoff(e))
    /\ [][ \A e \in Entries :
             (terminalCalls'[e] # terminalCalls[e] /\ status'[e] = STATUS_FINISHED)
               => \E t \in Ended :
                    /\ t.next_queue.id = e
                    /\ t.has_beat = TRUE
                    /\ t.pc = "change_queue"
                    /\ t.attempt_lock.is_locked
                    /\ lockedBy[t.next_resource.name] = Signoff(e)
                    /\ final_resource'[e] = t.next_resource.name ]_vars

\* C7, its case: an entry with a label selector is FINISHED with the
\* resource pool-B, which its attempt locked.
C7_Witness ==
    \E e \in Entries :
        /\ status[e] = STATUS_FINISHED
        /\ qdata[e].type = "label"
        /\ final_resource[e] = "pool-B"
        /\ lockedBy["pool-B"] = Signoff(e)

\* C8 as claimed: the description of a FAILED entry is the registry's denial
\* detail ("busy").
C8_DescriptionIsDetail ==
    \A e \in Entries : status[e] = STATUS_FAILED => description[e] \in DenialDetails

\* C8 as amended: an attempt whose heartbeat check passed and whose lock
\* request was denied makes its entry FAILED, and the description it stores
\* is the body of the registry's answer (the serialised object with its
\* is_locked and detail fields), cut to 2048 characters.
C8_DeniedIsFailed ==
    [][ \A t \in Ended :
          (t.pc = "change_queue" /\ ~ t.attempt_lock.is_locked)
            => /\ t.has_beat = TRUE
               /\ status'[t.next_queue.id] = STATUS_FAILED
               /\ description'[t.next_queue.id] =
                    SubSeq(<< "{", "is_locked", ":", "false", ",", "detail", ":" >>
                             \o t.attempt_lock.detail \o << "}" >>,
                           1, Min(Len(t.attempt_lock.detail) + 8, 2048)) ]_vars

\* C8, its case: an entry is FAILED after a denied lock request, with the
\* answer's body as its description.
C8_Witness ==
    \E e \in Entries :
        /\ status[e] = STATUS_FAILED
        /\ lockCalls[e] = 1 /\ lockGrants[e] = 0
        /\ description[e] = << "{", "is_locked", ":", "false", ",", "detail", ":",
                               "b", "u", "s", "y", "}" >>

\* s is the prefix of text of length n.
IsPrefix(s, text, n) ==
    /\ Len(s) = n
    /\ n <= Len(text)
    /\ \A i \in 1..n : s[i] = text[i]

\* C9: the description stored with FAILED is the prefix of the denial text
\* (the body of the registry's answer) of length min(len, 2048): at most 2048
\* characters, the whole text when it has at most 2048 characters, exactly
\* 2048 characters when it is longer.
C9_DescriptionTruncated ==
    [][ \A t \in Ended :
          (t.pc = "change_queue" /\ ~ t.attempt_lock.is_locked)
            => LET text == ResponseText(t.attempt_lock)
                   stored == description'[t.next_queue.id]
               IN  /\ status'[t.next_queue.id] = STATUS_FAILED
                   /\ Len(stored) <= 2048
                   /\ IsPrefix(stored, text, Len(stored))
                   /\ Len(text) <= 2048 => stored = text
                   /\ Len(text) > 2048 => Len(stored) = 2048 ]_vars

\* C9, its case: a FAILED entry whose description was cut: it has 2048
\* characters and ends inside the detail, before the body's closing brace.
C9_Witness ==
    /\ status[1] = STATUS_FAILED
    /\ Len(description[1]) = 2048
    /\ description[1][2048] # "}"

\* C10: once a promotion has come back unconfirmed, no further entry of the
\* initializing list is promoted, the PENDING set is not fetched, no group
\* is built, no attempt is started and no further beat begins.
C10_DivergenceStopsService ==
    [][ diverged
          => /\ promoteIdx' = promoteIdx
             /\ \A e \in Entries :
                  status[e] = STATUS_INITIALIZING => status'[e] = STATUS_INITIALIZING
             /\ pending_queues = NoList /\ pending_queues' = NoList
             /\ all' = <<>> /\ grouped_queues' = <<>>
             /\ started' = started
             /\ beats' = beats
             /\ pc' \in {"exit", "exit_clear", "exit_log", "terminated"} ]_vars

\* C10, its case: the first of two promotions came back unconfirmed and the
\* process has ended; the second entry is still INITIALIZING.
C10_Witness ==
    /\ diverged
    /\ pc = "terminated"
    /\ Len(initializing_queues) = 2
    /\ promoteIdx = 1
    /\ status[initializing_queues[2]] = STATUS_INITIALIZING

\* C11: in the startup-divergence case the process ends with a nonzero exit
\* status, after reporting the id of the offending entry.
C11_DivergenceExitsNonzero ==
    (diverged /\ pc = "terminated")
      => /\ reported \in Entries
         /\ exit_code \notin {Running, 0}

\* C12: when a PENDING entry of a beat has a selector type that is neither
\* name nor label, the configuration error is raised before any dispatch of
\* that beat: the beat that raised it has started no attempt.
C12_ErrorBeforeDispatch == exc = "Exception" => dispatched = {}

\* The place of the entry q in the list entries (ids are distinct).
Pos(entries, q) == CHOOSE i \in 1..Len(entries) : entries[i].id = q.id

\* a and b (groups or entries) carry the same (selector type, selector value).
SameSelector(a, b) ==
    a.group_type = b.group_type /\ a.group_name = b.group_name

\* The place in entries of the first entry with the group's selector.
FirstOf(entries, g) ==
    Min1({i \in 1..Len(entries) : SameSelector(g, entries[i])})

\* groups partitions entries exactly, by selector, in order of appearance.
Partitions(entries, groups) ==
    /\ \A i \in 1..Len(entries) :
         Cardinality({ <<g, k>> \in (1..Len(groups)) \X (1..Len(entries)) :
                         /\ k <= Len(groups[g].queues)
                         /\ groups[g].queues[k] = entries[i] }) = 1
    /\ \A g \in 1..Len(groups) :
         /\ groups[g].queues # <<>>
         /\ \A k \in 1..Len(groups[g].queues) :
              /\ \E i \in 1..Len(entries) : entries[i] = groups[g].queues[k]
              /\ SameSelector(groups[g], groups[g].queues[k])
              /\ \A l \in 1..Len(groups[g].queues) :
                   k < l => Pos(entries, groups[g].queues[k])
                              < Pos(entries, groups[g].queues[l])
         /\ \A h \in 1..Len(groups) :
              /\ g # h => ~ SameSelector(groups[g], groups[h])
              /\ g < h => FirstOf(entries, groups[g]) < FirstOf(entries, groups[h])

\* C13: the groups produced by a beat partition the in-memory entries
\* exactly: every entry is in exactly one group, entries with the same
\* selector are in the same group and only they, groups come in the order of
\* first appearance of their selector, members in their order of appearance.
C13_GroupsPartition ==
    [][ (grouped_queues' # grouped_queues /\ pc # "groups")
          => Partitions(all', grouped_queues') ]_vars

\* Three groups, the first with two members that are not neighbours.
C13_Witness ==
    /\ pc = "grouped"
    /\ Len(all) = 4
    /\ Len(grouped_queues) = 3
    /\ Len(grouped_queues[1].queues) = 2
    /\ grouped_queues[1].queues[2].id = 4

\* The entries an attempt was started for in the current beat.
DispatchedEntries == {p[1] : p \in dispatched}

\* The threads a step starts.
NewThreads == {t \in threads' : \A u \in threads : u.tid # t.tid}

\* C14: in one beat each group yields at most one (entry, resource) pair:
\* a step starts at most one attempt, the attempts started in the beat are
\* never more than the groups the loop has gone through (so never more than
\* the groups), and no entry is dispatched twice in the same beat.
C14_OnePairPerGroup ==
    [][ /\ Cardinality(NewThreads) <= 1
        /\ started' - started = Cardinality(NewThreads)
        /\ \A t \in NewThreads :
             /\ t.next_queue.id \notin DispatchedEntries
             /\ dispatched' =
                  dispatched \cup {<<t.next_queue.id, t.next_resource.name>>}
        /\ pc' = "groups" => Cardinality(dispatched') <= groupIdx' - 1
        /\ pc' \in {"groups", "exit", "exit_clear"}
             => Cardinality(dispatched') <= Len(grouped_queues') ]_vars

\* C14, its case: the loop is over for a label group with two members and
\* two free resources, and one attempt was started.
C14_Witness ==
    /\ pc = "exit"
    /\ exc = None
    /\ Len(grouped_queues) = 1
    /\ grouped_queues[1].group_type = "label"
    /\ Len(grouped_queues[1].queues) = 1
    /\ Cardinality(dispatched) = 1
    /\ started = 1
    /\ \A n \in ResourceNames : lockedBy[n] = Free

\* The registry lists no free resource for the group's selector.
NoFree(group) ==
    \/ group.group_type = "label" /\ FreeByLabel(group.group_name) = <<>>
    \/ group.group_type = "name" /\ FreeByName(group.group_name) = <<>>

\* The entries that are members of the groups gs.
Members(gs) ==
    {gs[g].queues[k].id : <<g, k>> \in
        {x \in (1..Len(gs)) \X Entries : x[2] <= Len(gs[x[1]].queues)}}

\* A step of the beat thread.
BeatStep == <<pc, groupIdx, exc>>' # <<pc, groupIdx, exc>>

\* C15: the turn of the loop for a group without free resource skips the
\* group without error: it starts no attempt, issues no status change or
\* lock request, leaves the group's members as they are, and goes on to the
\* following group (or ends the loop); and every beat groups all the
\* entries that are PENDING when it fetches them, a skipped one included.
C15_NoResourceSkips ==
    [][ /\ (AtGroup /\ NoFree(grouped_queues[groupIdx]) /\ BeatStep)
             => /\ exc' = None
                /\ threads' = threads
                /\ started' = started
                /\ dispatched' = dispatched
                /\ registryVars' = registryVars
                /\ callVars' = callVars
                /\ grouped_queues' = grouped_queues
                /\ groupIdx' = groupIdx + 1
                /\ pc' = IF groupIdx < Len(grouped_queues) THEN "groups"
                                                           ELSE "exit"
        /\ (pc = "promote" /\ pc' # "promote" /\ exc' = None)
             => \A e \in Entries :
                  status'[e] = STATUS_PENDING => e \in Members(grouped_queues')
      ]_vars

\* C15, its case: in the second beat the group that names pool-A, held by
\* another client since the start, was skipped once more with its member
\* still PENDING, and the loop is at the following group.
C15_Witness ==
    /\ beats = 2
    /\ AtGroup
    /\ groupIdx = 2
    /\ exc = None
    /\ lockedBy["pool-A"] = Foreign
    /\ grouped_queues[1].group_type = "name"
    /\ Len(grouped_queues[1].queues) = 1
    /\ status[grouped_queues[1].queues[1].id] = STATUS_PENDING
    /\ dispatched = {}

\* The beat thread has stopped at the bound of the model.
AtBound == pc = "construct" /\ beats >= MaxBeats

\* C16: an orphan abort or a lock denial never stops the beat or the loop
\* over the groups.  The end of an attempt leaves the beat thread where it
\* is; an exception starts travelling only at a group whose type is neither
\* name nor label or at a promotion the registry did not confirm; the
\* process terminates only with such an exception; and as long as it has not
\* terminated the beat thread can take its next step, whatever the attempts
\* have done.
C16_EntryFailuresDoNotStop ==
    /\ [][ /\ Ended # {} => beatVars' = beatVars
           /\ exc' # exc =>
                /\ exc = None
                /\ \/ /\ exc' = "Exception"
                      /\ AtGroup
                      /\ grouped_queues[groupIdx].group_type
                            \notin {"name", "label"}
                   \/ /\ exc' = "SystemExit"
                      /\ pc = "promote"
                      /\ promoteIdx <= Len(initializing_queues)
                      /\ status'[initializing_queues[promoteIdx]]
                            # STATUS_PENDING
           /\ pc' = "terminated" => exc' # None ]_vars
    /\ [](pc # "terminated" /\ ~ AtBound => ENABLED BeatThreadStep)

\* C16, its case: one entry was aborted as an orphan, the other was denied
\* its lock, and the service is in its second beat with no exception.
C16_Witness ==
    /\ beats = 2
    /\ pc \in {"promote", "groups", "exit"}
    /\ exc = None
    /\ \E e \in Entries : status[e] = STATUS_ABORTED
    /\ \E e \in Entries : status[e] = STATUS_FAILED

\* The attempt with thread id n is running.
Alive(n) == \E t \in threads : t.tid = n

\* The threads that are no longer there after the step.
Gone == {t \in threads : \A u \in threads' : u.tid # t.tid}

\* C17: every started attempt eventually ends, and it ends with exactly one
\* status-changing call for its entry, which sets ABORTED when the entry had
\* no heartbeat, FINISHED when the lock was granted and FAILED when it was
\* denied; an attempt issues no status-changing call before it ends, and
\* no step removes a thread that has not made that call.
C17_AttemptEnds ==
    /\ \A n \in Tids : Alive(n) ~> ~ Alive(n)
    /\ [][ /\ \A t \in Gone :
                LET id == t.next_queue.id
                IN  /\ Gone = {t}
                    /\ terminalCalls'[id] = terminalCalls[id] + 1
                    /\ t.pc \in {"abort", "change_queue"}
                    /\ t.pc = "abort" =>
                         ~ t.has_beat /\ status'[id] = STATUS_ABORTED
                    /\ t.pc = "change_queue" =>
                         /\ t.has_beat
                         /\ status'[id] = IF t.attempt_lock.is_locked
                                          THEN STATUS_FINISHED
                                          ELSE STATUS_FAILED
           /\ \A e \in Entries :
                terminalCalls'[e] # terminalCalls[e]
                  => \E t \in Gone : t.next_queue.id = e ]_vars

\* C17, its case: all four attempts of a run have been started and have
\* ended, with the three outcomes among them.
C17_Witness ==
    /\ started = 4
    /\ threads = {}
    /\ \E e \in Entries : status[e] = STATUS_ABORTED
    /\ \E e \in Entries : status[e] \in {STATUS_FINISHED, STATUS_FAILED}

\* The ids of the in-memory entries, in their order.
Ids(entries) == [i \in 1..Len(entries) |-> entries[i].id]

\* C18: after the refresh of a beat the in-memory entries are exactly the
\* PENDING set fetched in that beat, the entries PENDING in the registry at
\* the fetch, each once and in the fetched order; they stay so during the
\* loop over the groups.
C18_InMemoryIsFetched ==
    /\ [][ (pc = "promote" /\ pc' # "promote" /\ exc' = None)
             => /\ Ids(all') = pending_queues'
                /\ \A i \in 1..Len(all') : \A j \in 1..Len(all') :
                     all'[i].id = all'[j].id => i = j
                /\ Range(Ids(all')) =
                     {e \in Entries : status[e] = STATUS_PENDING} ]_vars
    /\ [](pc = "groups" => Ids(all) = pending_queues)

\* C18, its case: the second beat holds entry 2 alone, while entry 1, which
\* an attempt of the first beat made terminal, is not carried over.
C18_Witness ==
    /\ beats = 2
    /\ pc = "groups"
    /\ Ids(all) = <<2>>
    /\ status[1] \in Terminal
    /\ terminalCalls[1] = 1

\* Entry e is PENDING and one of the in-memory entries of a beat.
InMemoryPending(e) ==
    status[e] = STATUS_PENDING /\ e \in Range(Ids(all))

\* C19: a beat starts with the list of all the entries that are
\* INITIALIZING, and when it fetches the PENDING set every entry of that
\* list has been moved to PENDING and is in the fetched set; an entry that
\* is INITIALIZING while a beat is still to come is eventually PENDING and
\* in a beat's in-memory set, unless the process terminates.
C19_InitializingPromoted ==
    /\ [][ /\ beats' # beats =>
                Range(initializing_queues') =
                  {e \in Entries : status[e] = STATUS_INITIALIZING}
           /\ (pc = "promote" /\ pc' # "promote" /\ exc' = None) =>
                \A e \in Range(initializing_queues) :
                    /\ status[e] = STATUS_PENDING
                    /\ e \in Range(pending_queues')
                    /\ e \in Range(Ids(all')) ]_vars
    /\ \A e \in Entries :
         (status[e] = STATUS_INITIALIZING /\ beats < MaxBeats)
            ~> (pc = "terminated" \/ InMemoryPending(e))

\* C19, its case: entry 2 was created after the first beat had fetched its
\* INITIALIZING list (entry 1 alone was promoted by it), and the second beat
\* has promoted entry 2 and holds it in memory.
C19_Witness ==
    /\ beats = 2
    /\ initializing_queues = <<2>>
    /\ InMemoryPending(2)
    /\ status[1] \notin {Absent, STATUS_INITIALIZING}
    /\ exc = None

\* C20: the status log is append-only with one TIMESTAMP line per beat that
\* has ended: it holds the lines of the ended beats in their order, a step
\* that changes it appends one line and leaves the others as they are, and
\* that step comes after the beat's interval wait and after the clearing of
\* the in-memory entries and groups, which come in this order.
C20_LogAppendOnly ==
    /\ [](/\ Len(logLines) = IF pc \in {"construct", "terminated"}
                              THEN beats ELSE beats - 1
          /\ \A i \in 1..Len(logLines) : logLines[i] = i)
    /\ [][ /\ logLines' # logLines =>
                /\ Len(logLines') = Len(logLines) + 1
                /\ SubSeq(logLines', 1, Len(logLines)) = logLines
                /\ pc = "exit_log"
                /\ all = <<>> /\ grouped_queues = <<>>
           /\ (pc' = "exit_log" /\ pc # "exit_log") =>
                /\ pc = "exit_clear"
                /\ all' = <<>> /\ grouped_queues' = <<>>
           /\ (pc' = "exit_clear" /\ pc # "exit_clear") => pc = "exit"
           /\ (pc = "exit" /\ pc' # "exit") => pc' = "exit_clear" ]_vars

\* C20, its case: the second beat, which had entries in memory, has ended
\* and the log holds the lines of both beats.
C20_Witness ==
    /\ logLines = <<1, 2>>
    /\ pc = "construct"
    /\ pending_queues # NoList
    /\ pending_queues # <<>>
    /\ all = <<>>

\* The registry's list of free resources for the group's selector.
FreeFor(group) ==
    IF group.group_type = "label" THEN FreeByLabel(group.group_name)
    ELSE FreeByName(group.group_name)

\* C21: the pair an attempt is started with is the first member of the
\* group at hand, in member order, and the first resource of the
\* registry's result for the group's selector; that member is the one
\* taken off the group's list, the members behind it stay in their order.
C21_FirstMemberFirstResource ==
    [][ \A t \in NewThreads :
          /\ AtGroup
          /\ LET group == grouped_queues[groupIdx]
             IN  /\ group.group_type \in {"name", "label"}
                 /\ FreeFor(group) # <<>>
                 /\ t.next_queue = group.queues[1]
                 /\ t.next_resource = FreeFor(group)[1]
                 /\ grouped_queues'[groupIdx].queues =
                      SubSeq(group.queues, 2, Len(group.queues)) ]_vars

\* C21, its case: a label group of entries 1 and 2, with pool-A and pool-B
\* both free, has handed over entry 1 with pool-A; entry 2 is left.
C21_Witness ==
    /\ Len(grouped_queues) = 1
    /\ grouped_queues[1].group_type = "label"
    /\ Ids(grouped_queues[1].queues) = <<2>>
    /\ \A n \in ResourceNames : lockedBy[n] = Free
    /\ \E t \in threads :
         /\ t.next_queue.id = 1
         /\ t.next_resource.name = "pool-A"
         /\ t.pc = "beat_check"

\* What the registry holds about entry e.
EntryRecord(e) == <<status[e], qdata[e], final_resource[e], description[e]>>

\* An attempt for entry e is in flight.
InFlight(e) == \E t \in threads : t.next_queue.id = e

\* C22: the record of an entry in the registry changes only when a client
\* creates the entry, when the beat thread promotes it from INITIALIZING to
\* PENDING, or when an attempt started for that entry ends; so a PENDING
\* entry without attempt in flight keeps its status and its data.
C22_UntouchedEntriesKept ==
    [][ \A e \in Entries :
          /\ EntryRecord(e)' # EntryRecord(e) =>
                \/ /\ status[e] = Absent
                   /\ status'[e] = STATUS_INITIALIZING
                \/ /\ status[e] = STATUS_INITIALIZING
                   /\ status'[e] = STATUS_PENDING
                   /\ pc = "promote"
                   /\ promoteIdx <= Len(initializing_queues)
                   /\ initializing_queues[promoteIdx] = e
                   /\ <<qdata[e], final_resource[e], description[e]>>' =
                        <<qdata[e], final_resource[e], description[e]>>
                \/ /\ \E t \in Gone : t.next_queue.id = e
                   /\ status'[e] \in Terminal
                   /\ qdata'[e] = qdata[e]
          /\ (status[e] = STATUS_PENDING /\ ~ InFlight(e)) =>
                EntryRecord(e)' = EntryRecord(e) ]_vars

\* C22, its case: entries 1 and 2 were in one group of the first beat;
\* entry 1 was selected and its attempt has ended, entry 2 was not selected
\* and is PENDING as before at the end of the beat.
C22_Witness ==
    /\ beats = 1
    /\ pc = "construct"
    /\ pending_queues = <<1, 2>>
    /\ qdata[1] = qdata[2]
    /\ started = 1
    /\ threads = {}
    /\ status[1] \in Terminal
    /\ status[2] = STATUS_PENDING
    /\ final_resource[2] = None /\ description[2] = <<>>

\* C23: when the loop is at a group with free resources whose first member
\* has an attempt running, its turn starts no attempt at all, and for the
\* rest of the beat no entry with that member's selector is dispatched.
C23_BusyHeadBlocksGroup ==
    /\ [][ (SelectsLive /\ BeatStep) => NewThreads = {} /\ started' = started ]_vars
    /\ [](\A e \in skipped : \A d \in DispatchedEntries : qdata[d] # qdata[e])

\* C23, its case: the second beat has gone through the group of entries 1
\* and 2 while entry 1's attempt of the first beat was running and a
\* resource was free for the group; entry 2 got no attempt.
C23_Witness ==
    /\ beats = 2
    /\ pc = "exit"
    /\ skipped = {1}
    /\ dispatched = {}
    /\ qdata[1] = qdata[2]
    /\ Len(grouped_queues) = 1
    /\ Ids(grouped_queues[1].queues) = <<2>>
    /\ FreeFor(grouped_queues[1]) # <<>>
    /\ InFlight(1)
    /\ ~ InFlight(2)
    /\ status[2] = STATUS_PENDING

\* C24: over its whole lifetime an entry is granted at most one lock:
\* lock_resource answers is_locked = true at most once per entry id.
C24_OneLockPerEntry == \A e \in Entries : lockGrants[e] <= 1

\* The registry lists a free resource for the selector of entry e.
HasFree(e) ==
    /\ qdata[e].type \in {"name", "label"}
    /\ FreeFor([group_type |-> qdata[e].type,
                group_name |-> qdata[e].value]) # <<>>

\* C25, as stated: under fair scheduling every PENDING entry whose selector
\* keeps matching a free resource eventually leaves PENDING.
C25_NoStarvation ==
    \A e \in Entries :
        (status[e] = STATUS_PENDING)
           ~> (status[e] # STATUS_PENDING \/ ~ HasFree(e))

\* C25, amended: under fair scheduling every PENDING entry whose selector
\* keeps matching a free resource eventually leaves PENDING, unless the
\* process terminates (invalid selector type of some entry, unconfirmed
\* promotion).
C25_NoStarvationWhileRunning ==
    \A e \in Entries :
        (status[e] = STATUS_PENDING)
           ~> (status[e] # STATUS_PENDING \/ ~ HasFree(e) \/ pc = "terminated")

\* C25, its case: entries 1 and 2 carry the same label; entry 1 was ahead
\* and finished with pool-A, entry 2 after it with pool-B, and the service
\* is still running.
C25_Witness ==
    /\ qdata[1] = qdata[2]
    /\ qdata[1].type = "label"
    /\ status[1] = STATUS_FINISHED /\ final_resource[1] = "pool-A"
    /\ status[2] = STATUS_FINISHED /\ final_resource[2] = "pool-B"
    /\ lockGrants = [e \in Entries |-> 1]
    /\ threads = {}
    /\ exc = None

====
